---- MODULE Spec2Model ----
(***************************************************************************)
(* The movie catalogue backend of src/server.js: an express application    *)
(* with five handlers over one mongoose model (Movie) and one external     *)
(* upload service (cloudinary).  Every handler is an async function: it    *)
(* runs on the event loop until its next await, so each action below is    *)
(* one run-to-await segment of one handler, and segments of different      *)
(* requests interleave freely.                                             *)
(***************************************************************************)
EXTENDS Integers, Sequences, FiniteSets, Bags

(***************************************************************************)
(* Bounds of the model.                                                    *)
(***************************************************************************)
\* Number of requests the server accepts in one behaviour.
MaxRequests == 2

\* Number of movies the collection may hold when the server starts.
MaxStored == 1

(***************************************************************************)
(* Values.  A form field is a sequence of characters, or Undefined when    *)
(* the multipart form does not carry the field.                            *)
(***************************************************************************)
Undefined == <<"undefined">>

Digits == {"0", "1", "2", "3", "4", "5", "6", "7", "8", "9"}

DigitVal(c) ==
  CASE c = "0" -> 0 [] c = "1" -> 1 [] c = "2" -> 2 [] c = "3" -> 3
    [] c = "4" -> 4 [] c = "5" -> 5 [] c = "6" -> 6 [] c = "7" -> 7
    [] c = "8" -> 8 [] c = "9" -> 9

\* JavaScript truthiness of a form field: undefined and "" are falsy, every
\* other string (also "0") is truthy.
Truthy(v) == v # Undefined /\ v # <<>>

AllDigits(s) == Len(s) > 0 /\ \A i \in 1..Len(s) : s[i] \in Digits

RECURSIVE DecimalValue(_)
DecimalValue(s) ==
  IF s = <<>> THEN 0
  ELSE 10 * DecimalValue(SubSeq(s, 1, Len(s) - 1)) + DigitVal(s[Len(s)])

\* mongoose's Number cast of a string: an optional sign and decimal digits;
\* anything else is NaN, a CastError.
IsNumeric(s) ==
  /\ s # Undefined
  /\ \/ AllDigits(s)
     \/ Len(s) > 1 /\ s[1] = "-" /\ AllDigits(Tail(s))

ToNumber(s) ==
  IF s[1] = "-" THEN 0 - DecimalValue(Tail(s)) ELSE DecimalValue(s)

\* mongoose's Date cast of a string, on year strings: the date of that year;
\* a string that is no date is a CastError.
IsDate(s) == s # Undefined /\ AllDigits(s) /\ Len(s) = 4

ToDate(s) == DecimalValue(s)

(***************************************************************************)
(* The form fields a client may send.                                      *)
(***************************************************************************)
TitleInputs == {Undefined, <<>>, <<"a">>}
DescriptionInputs == {Undefined, <<>>, <<"d">>}
GenreInputs == {Undefined, <<>>, <<"g">>}
RatingInputs ==
  {Undefined, <<>>, <<"0">>, <<"1", "0">>, <<"1", "1">>, <<"-", "1">>, <<"z">>}
ReleaseDateInputs == {Undefined, <<>>, <<"2", "0", "2", "0">>, <<"z">>}

\* A URL string a client puts in the form; the upload service issues 1, 2, ...
ClientUrl == 0

\* Per field, the inputs that pass the schema's validation.
Usual(k) ==
  CASE k = "title" -> {<<"a">>}
    [] k = "description" -> {<<"d">>}
    [] k = "genre" -> {<<"g">>}
    [] k = "rating" -> {<<"0">>, <<"1", "0">>}
    [] k = "releaseDate" -> {<<"2", "0", "2", "0">>}

Inputs(k) ==
  CASE k = "title" -> TitleInputs
    [] k = "description" -> DescriptionInputs
    [] k = "genre" -> GenreInputs
    [] k = "rating" -> RatingInputs
    [] k = "releaseDate" -> ReleaseDateInputs

FieldNames == {"title", "description", "genre", "rating", "releaseDate"}

\* The forms requests carry: one field (odd) takes any of its inputs, absent,
\* empty and malformed included; the others take inputs that validate.
FormsWith(odd) ==
  LET In(k) == IF k = odd THEN Inputs(k) ELSE Usual(k)
  IN [title : In("title"), description : In("description"),
      genre : In("genre"), rating : In("rating"),
      releaseDate : In("releaseDate"), imageUrl : {ClientUrl}]

Forms == UNION {FormsWith(odd) : odd \in FieldNames}

NoForm ==
  [title |-> Undefined, description |-> Undefined, genre |-> Undefined,
   rating |-> Undefined, releaseDate |-> Undefined, imageUrl |-> ClientUrl]

\* Request identifiers: the ObjectIds a behaviour can generate, and one
\* malformed string.
ObjectIds == 1..(MaxStored + MaxRequests)
MalformedId == 0
ParamIds == ObjectIds \cup {MalformedId}

VARIABLES
  db,        \* the movies collection: a set of documents
  nextId,    \* number of ObjectIds generated by new Movie(...)
  uploads,   \* number of URLs the upload service has issued
  inflight,  \* bag of requests suspended at an await
  accepted,  \* number of requests accepted so far
  resp       \* the response sent by the last step, or NoResponse

vars == <<db, nextId, uploads, inflight, accepted, resp>>

(***************************************************************************)
(* The Movie schema and the mongoose calls the handlers make.              *)
(***************************************************************************)
RatingMin == 0
RatingMax == 10

\* required: true on a String path: a string of length > 0.
RequiredString(v) == v # Undefined /\ Len(v) > 0

\* RatingValid without max: 10 of line 39.
RatingValidNoMax(v) ==
  /\ Truthy(v)
  /\ IsNumeric(v)
  /\ ToNumber(v) >= RatingMin

\* rating: cast to Number ("" casts to null), required, min, max.
RatingValid(v) ==
  /\ Truthy(v)
  /\ IsNumeric(v)
  /\ ToNumber(v) >= RatingMin
  /\ ToNumber(v) <= RatingMax

\* releaseDate: cast to Date ("" casts to null), required.
ReleaseDateValid(v) == Truthy(v) /\ IsDate(v)

\* The validation newMovie.save() runs on the document of lines 74-81; its
\* imageUrl is the upload's secure_url, a non-empty string.
ValidateMovie(form) ==
  /\ RequiredString(form.title)
  /\ RequiredString(form.description)
  /\ RequiredString(form.genre)
  /\ RatingValid(form.rating)
  /\ ReleaseDateValid(form.releaseDate)

\* NewMovie with genre read from the wrong form field.
NewMovieWrongField(id, form, url) ==
  [_id |-> id,
   title |-> form.title,
   description |-> form.description,
   imageUrl |-> url,
   genre |-> form.description,
   rating |-> ToNumber(form.rating),
   releaseDate |-> ToDate(form.releaseDate)]

\* new Movie({...}) of a form that validates, with the ObjectId it generates.
NewMovie(id, form, url) ==
  [_id |-> id,
   title |-> form.title,
   description |-> form.description,
   imageUrl |-> url,
   genre |-> form.genre,
   rating |-> ToNumber(form.rating),
   releaseDate |-> ToDate(form.releaseDate)]

\* Movie.findById: the documents with that _id, none (null) or one.
FindById(coll, id) == {d \in coll : d._id = id}

\* The update document of lines 140-147, cast to the schema's types;
\* a || b takes b when a is undefined or "".
UpdateCastable(form) ==
  /\ Truthy(form.rating) => IsNumeric(form.rating)
  /\ Truthy(form.releaseDate) => IsDate(form.releaseDate)

\* UpdateOf without the || movie.description of line 142.
UpdateOfNoFallback(form, movie, imageUrl) ==
  [_id |-> movie._id,
   title |-> IF Truthy(form.title) THEN form.title ELSE movie.title,
   description |-> form.description,
   imageUrl |-> imageUrl,
   genre |-> IF Truthy(form.genre) THEN form.genre ELSE movie.genre,
   rating |->
     IF Truthy(form.rating) THEN ToNumber(form.rating) ELSE movie.rating,
   releaseDate |->
     IF Truthy(form.releaseDate) THEN ToDate(form.releaseDate)
     ELSE movie.releaseDate]

\* UpdateOf taking imageUrl from the form when the form carries one.
UpdateOfClientImage(form, movie, imageUrl) ==
  [_id |-> movie._id,
   title |-> IF Truthy(form.title) THEN form.title ELSE movie.title,
   description |->
     IF Truthy(form.description) THEN form.description ELSE movie.description,
   imageUrl |-> form.imageUrl,
   genre |-> IF Truthy(form.genre) THEN form.genre ELSE movie.genre,
   rating |->
     IF Truthy(form.rating) THEN ToNumber(form.rating) ELSE movie.rating,
   releaseDate |->
     IF Truthy(form.releaseDate) THEN ToDate(form.releaseDate)
     ELSE movie.releaseDate]

UpdateOf(form, movie, imageUrl) ==
  [_id |-> movie._id,
   title |-> IF Truthy(form.title) THEN form.title ELSE movie.title,
   description |->
     IF Truthy(form.description) THEN form.description ELSE movie.description,
   imageUrl |-> imageUrl,
   genre |-> IF Truthy(form.genre) THEN form.genre ELSE movie.genre,
   rating |->
     IF Truthy(form.rating) THEN ToNumber(form.rating) ELSE movie.rating,
   releaseDate |->
     IF Truthy(form.releaseDate) THEN ToDate(form.releaseDate)
     ELSE movie.releaseDate]

\* FindByIdAndUpdate with {upsert: true}: inserts when no document matches.
FindByIdAndUpdateUpsert(coll, id, update) ==
  IF FindById(coll, id) = {}
  THEN coll \cup {[update EXCEPT !._id = id]}
  ELSE {IF d._id = id THEN [update EXCEPT !._id = id] ELSE d : d \in coll}

\* Movie.findByIdAndUpdate(id, update, {new: true}): sets the fields of the
\* document with that _id when there is one; no upsert, no validators.
FindByIdAndUpdate(coll, id, update) ==
  {IF d._id = id THEN [update EXCEPT !._id = id] ELSE d : d \in coll}

\* Movie.findByIdAndDelete(id).
FindByIdAndDelete(coll, id) == coll \ FindById(coll, id)

(***************************************************************************)
(* Requests in flight and responses.                                       *)
(***************************************************************************)
\* A request suspended at an await: the handler (op), the await (pc) and the
\* handler's locals: req.params.id, req.file, movie, imageUrl / secure_url.
Pending(op, pc, id, file, movie, imageUrl) ==
  [op |-> op, pc |-> pc, id |-> id, file |-> file, movie |-> movie,
   imageUrl |-> imageUrl]

\* res.status(status).json(...): with the request it answers (op, id, file,
\* the form as the handler read it, and the handler's movie and upload URL).
Response(r, form, status, error, body) ==
  [op |-> r.op, id |-> r.id, file |-> r.file, movie |-> r.movie,
   url |-> r.imageUrl, form |-> form, status |-> status, error |-> error,
   body |-> body]

NoResponse ==
  [op |-> "none", id |-> MalformedId, file |-> FALSE, movie |-> {}, url |-> 0,
   form |-> NoForm, status |-> 0, error |-> "", body |-> {}]

Accept == accepted < MaxRequests /\ accepted' = accepted + 1

Suspend(r) == inflight' = inflight (+) SetToBag({r})
Resume(r, next) == inflight' = (inflight (-) SetToBag({r})) (+) SetToBag({next})
Finish(r) == inflight' = inflight (-) SetToBag({r})

\* A form that validates, as earlier requests sent it.
StoredForm ==
  [title |-> <<"a">>, description |-> <<"d">>, genre |-> <<"g">>,
   rating |-> <<"1", "0">>, releaseDate |-> <<"2", "0", "2", "0">>,
   imageUrl |-> ClientUrl]

\* The server starts on the collection earlier POST requests left: MaxStored
\* movies, each saved with its own ObjectId and its own upload's URL.
Init ==
  /\ db = {NewMovie(k, StoredForm, k) : k \in 1..MaxStored}
  /\ nextId = MaxStored
  /\ uploads = MaxStored
  /\ inflight = EmptyBag
  /\ accepted = 0
  /\ resp = NoResponse

(***************************************************************************)
(* POST /api/movies                                                        *)
(***************************************************************************)
\* PostNoFile without the return of line 54: the handler goes on to upload.
PostNoFileFallsThrough ==
  /\ Accept
  /\ Suspend(Pending("post", "upload", MalformedId, FALSE, {}, 0))
  /\ resp' = Response(Pending("post", "start", MalformedId, FALSE, {}, 0),
                      NoForm, 400, "", {})
  /\ UNCHANGED <<db, nextId, uploads>>

\* Lines 47-55: no file.
PostNoFile ==
  /\ Accept
  /\ resp' = Response(Pending("post", "start", MalformedId, FALSE, {}, 0),
                      NoForm, 400, "", {})
  /\ UNCHANGED <<db, nextId, uploads, inflight>>

\* Lines 47-69: a file; the upload is started and awaited.
PostUploadStart ==
  /\ Accept
  /\ Suspend(Pending("post", "upload", MalformedId, TRUE, {}, 0))
  /\ resp' = NoResponse
  /\ UNCHANGED <<db, nextId, uploads>>

\* Lines 60-71: the upload resolves with a fresh secure_url.
PostUploadResolve(r) ==
  /\ r.op = "post" /\ r.pc = "upload"
  /\ uploads' = uploads + 1
  /\ Resume(r, [r EXCEPT !.pc = "save", !.imageUrl = uploads + 1])
  /\ resp' = NoResponse
  /\ UNCHANGED <<db, nextId, accepted>>

\* PostUploadReject with the error of line 64 dropped: the handler goes on to
\* save with no secure_url.
PostUploadRejectIgnored(r) ==
  /\ r.op = "post" /\ r.pc = "upload"
  /\ Resume(r, [r EXCEPT !.pc = "save"])
  /\ resp' = NoResponse
  /\ UNCHANGED <<db, nextId, uploads, accepted>>

\* Lines 64, 86-89: the upload rejects.
PostUploadReject(r) ==
  /\ r.op = "post" /\ r.pc = "upload"
  /\ Finish(r)
  /\ resp' = Response(r, NoForm, 500, "UploadError", {})
  /\ UNCHANGED <<db, nextId, uploads, accepted>>

\* Lines 74-89: new Movie, save, 201; a validation or database error is 500.
PostSave(r) ==
  /\ r.op = "post" /\ r.pc = "save"
  /\ nextId' = nextId + 1
  /\ Finish(r)
  /\ \E form \in Forms :
       IF ~ValidateMovie(form)
       THEN /\ resp' = Response(r, form, 500, "ValidationError", {})
            /\ db' = db
       ELSE \E dbOk \in BOOLEAN :
              IF ~dbOk
              THEN /\ resp' = Response(r, form, 500, "DbError", {})
                   /\ db' = db
              ELSE LET saved == NewMovie(nextId + 1, form, r.imageUrl)
                   IN /\ db' = db \cup {saved}
                      /\ resp' = Response(r, form, 201, "", {saved})
  /\ UNCHANGED <<uploads, accepted>>

(***************************************************************************)
(* GET /api/movies and GET /api/movies/:id                                 *)
(***************************************************************************)
\* Lines 93-100.
GetMovies ==
  /\ Accept
  /\ \E dbOk \in BOOLEAN :
       LET r == Pending("list", "start", MalformedId, FALSE, {}, 0)
       IN resp' = IF dbOk THEN Response(r, NoForm, 200, "", db)
                  ELSE Response(r, NoForm, 500, "DbError", {})
  /\ UNCHANGED <<db, nextId, uploads, inflight>>

\* Lines 103-111.
GetMovie(id) ==
  /\ Accept
  /\ \E dbOk \in BOOLEAN :
       LET r == Pending("get", "start", id, FALSE, {}, 0)
           movie == FindById(db, id)
       IN resp' =
            IF id = MalformedId THEN Response(r, NoForm, 500, "CastError", {})
            ELSE IF ~dbOk THEN Response(r, NoForm, 500, "DbError", {})
            ELSE IF movie = {} THEN Response(r, NoForm, 404, "", {})
            ELSE Response(r, NoForm, 200, "", movie)
  /\ UNCHANGED <<db, nextId, uploads, inflight>>

(***************************************************************************)
(* PUT /api/movies/:id                                                     *)
(***************************************************************************)
\* Lines 114-122: findById; 404 when null, 400 when it throws.
PutFindFail(id) ==
  /\ Accept
  /\ \E file \in BOOLEAN, dbOk \in BOOLEAN :
       LET r == Pending("put", "find", id, file, {}, 0)
       IN /\ \/ id = MalformedId
             \/ ~dbOk
             \/ FindById(db, id) = {}
          /\ resp' =
               IF id = MalformedId THEN Response(r, NoForm, 400, "CastError", {})
               ELSE IF ~dbOk THEN Response(r, NoForm, 400, "DbError", {})
               ELSE Response(r, NoForm, 404, "", {})
  /\ UNCHANGED <<db, nextId, uploads, inflight>>

\* Lines 116-133: the movie is found and a file came: the upload is awaited.
PutUploadStart(id) ==
  /\ Accept
  /\ id # MalformedId
  /\ \E movie \in FindById(db, id) :
       Suspend(Pending("put", "upload", id, TRUE, {movie}, movie.imageUrl))
  /\ resp' = NoResponse
  /\ UNCHANGED <<db, nextId, uploads>>

\* Lines 116-123, 138: the movie is found and no file came: imageUrl stays
\* movie.imageUrl and findByIdAndUpdate is awaited.
PutKeepImage(id) ==
  /\ Accept
  /\ id # MalformedId
  /\ \E movie \in FindById(db, id) :
       Suspend(Pending("put", "update", id, FALSE, {movie}, movie.imageUrl))
  /\ resp' = NoResponse
  /\ UNCHANGED <<db, nextId, uploads>>

\* Lines 124-134: the upload resolves; imageUrl = result.secure_url.
PutUploadResolve(r) ==
  /\ r.op = "put" /\ r.pc = "upload"
  /\ uploads' = uploads + 1
  /\ Resume(r, [r EXCEPT !.pc = "update", !.imageUrl = uploads + 1])
  /\ resp' = NoResponse
  /\ UNCHANGED <<db, nextId, accepted>>

\* Lines 128, 152-155: the upload rejects.
PutUploadReject(r) ==
  /\ r.op = "put" /\ r.pc = "upload"
  /\ Finish(r)
  /\ resp' = Response(r, NoForm, 400, "UploadError", {})
  /\ UNCHANGED <<db, nextId, uploads, accepted>>

\* Lines 138-155: findByIdAndUpdate and the 200 with whatever it returned.
PutUpdate(r) ==
  /\ r.op = "put" /\ r.pc = "update"
  /\ Finish(r)
  /\ \E form \in Forms, movie \in r.movie :
       IF ~UpdateCastable(form)
       THEN /\ resp' = Response(r, form, 400, "CastError", {})
            /\ db' = db
       ELSE \E dbOk \in BOOLEAN :
              IF ~dbOk
              THEN /\ resp' = Response(r, form, 400, "DbError", {})
                   /\ db' = db
              ELSE /\ db' = FindByIdAndUpdate(db, r.id,
                                              UpdateOf(form, movie, r.imageUrl))
                   /\ resp' = Response(r, form, 200, "", FindById(db', r.id))
  /\ UNCHANGED <<nextId, uploads, accepted>>

(***************************************************************************)
(* DELETE /api/movies/:id                                                  *)
(***************************************************************************)
\* Lines 160-169.
DeleteMovie(id) ==
  /\ Accept
  /\ \E dbOk \in BOOLEAN :
       LET r == Pending("delete", "start", id, FALSE, {}, 0)
           deletedMovie == FindById(db, id)
       IN IF id = MalformedId
          THEN /\ resp' = Response(r, NoForm, 500, "CastError", {})
               /\ db' = db
          ELSE IF ~dbOk
          THEN /\ resp' = Response(r, NoForm, 500, "DbError", {})
               /\ db' = db
          ELSE IF deletedMovie = {}
          THEN /\ resp' = Response(r, NoForm, 404, "", {})
               /\ db' = db
          ELSE /\ resp' = Response(r, NoForm, 200, "", {})
               /\ db' = FindByIdAndDelete(db, id)
  /\ UNCHANGED <<nextId, uploads, inflight>>

Next ==
  \/ PostNoFile
  \/ PostUploadStart
  \/ \E r \in BagToSet(inflight) : PostUploadResolve(r)
  \/ \E r \in BagToSet(inflight) : PostUploadReject(r)
  \/ \E r \in BagToSet(inflight) : PostSave(r)
  \/ GetMovies
  \/ \E id \in ParamIds : GetMovie(id)
  \/ \E id \in ParamIds : PutFindFail(id)
  \/ \E id \in ParamIds : PutUploadStart(id)
  \/ \E id \in ParamIds : PutKeepImage(id)
  \/ \E r \in BagToSet(inflight) : PutUploadResolve(r)
  \/ \E r \in BagToSet(inflight) : PutUploadReject(r)
  \/ \E r \in BagToSet(inflight) : PutUpdate(r)
  \/ \E id \in ParamIds : DeleteMovie(id)

Spec == Init /\ [][Next]_vars

(***************************************************************************)
(* Vocabulary of the properties.  A step that answers a request leaves the *)
(* exchange in resp', next to the collection before (db) and after (db').  *)
(***************************************************************************)
Ids(coll) == {d._id : d \in coll}

\* The step answers a request of handler op.
Answers(op) == resp'.op = op

\* The step is the findByIdAndUpdate segment of a PUT (lines 138-155): the
\* request had found its movie and, with a file, its upload had resolved.
AnswersUpdate ==
  /\ resp'.op = "put"
  /\ resp'.movie # {}
  /\ resp'.error # "UploadError"

OutOfRange(v) ==
  /\ Truthy(v)
  /\ IsNumeric(v)
  /\ (ToNumber(v) < RatingMin \/ ToNumber(v) > RatingMax)

\* C1: a POST without a file is answered 400, starts no upload (no request is
\* left waiting on one, no URL is issued) and leaves the collection as it was.
C1_NoFileRejected ==
  [][(Answers("post") /\ ~resp'.file) =>
       /\ resp'.status = 400
       /\ inflight' = inflight
       /\ uploads' = uploads
       /\ nextId' = nextId
       /\ db' = db]_vars

C1_Witness == resp.op = "post" /\ ~resp.file /\ resp.status = 400

\* C9: a POST with a file persists a record exactly when it answers 201: the
\* step that answers 201 inserts the answered document, a step that answers
\* 500 (upload rejected, validation or database error) leaves the collection
\* as it was, nothing else inserts, and save is attempted (an ObjectId is
\* generated) only by a request whose upload has issued its URL.
C9_PersistedIffCreated ==
  [][/\ (Answers("post") /\ resp'.file) =>
          /\ resp'.status \in {201, 500}
          /\ resp'.error \in {"UploadError", "ValidationError", "DbError"} =>
               resp'.status = 500
          /\ resp'.status = 201 =>
               /\ Cardinality(resp'.body) = 1
               /\ resp'.body \cap db = {}
               /\ db' = db \cup resp'.body
          /\ resp'.status = 500 => db' = db
          /\ resp'.error = "UploadError" =>
               resp'.status = 500 /\ nextId' = nextId
     /\ Ids(db') \ Ids(db) # {} =>
          Answers("post") /\ resp'.file /\ resp'.status = 201
     /\ nextId' # nextId =>
          Answers("post") /\ resp'.file /\ resp'.url \in 1..uploads]_vars

C9_Witness ==
  /\ resp.op = "post" /\ resp.file
  /\ resp.status = 500 /\ resp.error = "DbError"
  /\ resp.url \in 1..uploads

\* C7: a POST whose rating is below 0 or above 10 is not answered 201 and
\* inserts nothing.
C7_RatingOutOfRangeRejected ==
  [][(Answers("post") /\ OutOfRange(resp'.form.rating)) =>
       resp'.status # 201 /\ db' = db]_vars

C7_Witness ==
  /\ resp.op = "post"
  /\ resp.form.rating = <<"1", "1">>
  /\ resp.status = 500

\* C8: the imageUrl of every stored movie is a URL the upload service issued,
\* never the imageUrl field of a form.
C8_ImageUrlFromUpload ==
  \A d \in db : d.imageUrl \in 1..uploads /\ d.imageUrl # ClientUrl

C8_Witness ==
  /\ resp.op = "put" /\ resp.file /\ resp.status = 200
  /\ resp.form.imageUrl = ClientUrl
  /\ \E d \in db : d._id = resp.id /\ d.imageUrl = resp.url
  /\ resp.url > MaxStored

\* The 201 of a POST: the answered document is the one inserted, under a
\* fresh ObjectId, with the URL of this request's upload and the submitted
\* fields as the schema casts them.
CreatedAsSubmitted ==
  /\ (Answers("post") /\ resp'.file /\ ValidateMovie(resp'.form)
        /\ resp'.error \notin {"UploadError", "DbError"}) =>
       resp'.status = 201
  /\ (Answers("post") /\ resp'.status = 201) =>
       \E d \in resp'.body :
         /\ resp'.body = {d}
         /\ d \in db'
         /\ d._id \notin Ids(db)
         /\ resp'.url \in 1..uploads
         /\ d.imageUrl = resp'.url
         /\ d.title = resp'.form.title
         /\ d.description = resp'.form.description
         /\ d.genre = resp'.form.genre
         /\ d.rating = ToNumber(resp'.form.rating)
         /\ d.releaseDate = ToDate(resp'.form.releaseDate)

\* A stored document stays as it is unless the step answers 200 to an update
\* or a delete of its identifier.
ChangedOnlyByUpdateOrDelete ==
  \A d \in db :
    \/ d \in db'
    \/ /\ AnswersUpdate \/ Answers("delete")
       /\ resp'.id = d._id
       /\ resp'.status = 200

\* C2 as stated: a POST with a file and valid fields whose upload and write
\* succeed answers 201 with the record stored as submitted, and a GET of an
\* identifier a POST returned, still stored, answers 200 with the stored
\* record.
C2_Original ==
  [][/\ CreatedAsSubmitted
     /\ ChangedOnlyByUpdateOrDelete
     /\ (Answers("get") /\ resp'.id > MaxStored
           /\ FindById(db', resp'.id) # {}) =>
          /\ resp'.status = 200
          /\ resp'.body = FindById(db', resp'.id)]_vars

\* C2 as amended: the GET answers 200 with the stored record when its
\* database read succeeds, and 500 when the read fails.
C2_CreatedThenRetrievable ==
  [][/\ CreatedAsSubmitted
     /\ ChangedOnlyByUpdateOrDelete
     /\ (Answers("get") /\ FindById(db', resp'.id) # {}) =>
          /\ resp'.error = "" =>
               /\ resp'.status = 200
               /\ resp'.body = FindById(db', resp'.id)
          /\ resp'.error # "" => resp'.status = 500 /\ resp'.body = {}
          /\ db' = db]_vars

C2_Witness ==
  /\ resp.op = "get" /\ resp.status = 200
  /\ resp.id > MaxStored
  /\ resp.body = FindById(db, resp.id)
  /\ \E d \in resp.body : d.imageUrl > MaxStored /\ d.rating = 0

\* A PUT with a new file reaches its update while the stored record is still
\* the one it found and no other request on the identifier is in flight.
UpdateWithFileAlone ==
  /\ AnswersUpdate
  /\ resp'.file
  /\ FindById(db, resp'.id) = resp'.movie
  /\ \A q \in BagToSet(inflight') : q.id # resp'.id

\* After the step the record of the answered identifier has the new upload's
\* URL, keeps every field the form omitted or sent empty, and no other
\* document changed.
UpdatedWithNewImage ==
  \E old \in resp'.movie, new \in FindById(db', resp'.id) :
    /\ new._id = old._id
    /\ new.imageUrl = resp'.url
    /\ resp'.url \in 1..uploads /\ resp'.url # old.imageUrl
    /\ \A k \in FieldNames : ~Truthy(resp'.form[k]) => new[k] = old[k]
    /\ db' \ {new} = db \ {old}

\* C4 as stated: every such update leaves the new URL in the record.
C4_Original == [][UpdateWithFileAlone => UpdatedWithNewImage]_vars

\* C4 as amended: so does every such update answered 200; one answered 400
\* (a field that does not cast, a database error) leaves the collection as
\* it was.
C4_UpdateWithFile ==
  [][UpdateWithFileAlone =>
       /\ resp'.status \in {200, 400}
       /\ resp'.status = 200 => UpdatedWithNewImage
       /\ resp'.status = 400 => db' = db]_vars

C4_Witness ==
  /\ resp.op = "put" /\ resp.file /\ resp.status = 200
  /\ resp.form.title = Undefined
  /\ \E old \in resp.movie, new \in resp.body :
       /\ new \in db
       /\ new.imageUrl = resp.url /\ new.imageUrl # old.imageUrl
       /\ new.title = old.title
       /\ new.rating # old.rating

\* An identifier whose ObjectId was generated and that has no document has
\* none after the step either.
NeverReappears ==
  \A id \in 1..nextId : FindById(db, id) = {} => FindById(db', id) = {}

\* C5 as stated: DELETE of an ObjectId answers 404 and changes nothing when
\* the identifier has no record, answers 200 and removes exactly that record
\* when it has one; a removed identifier never reappears and a GET of it
\* answers 404.
C5_Original ==
  [][/\ (Answers("delete") /\ resp'.id \in ObjectIds) =>
          /\ FindById(db, resp'.id) = {} =>
               resp'.status = 404 /\ db' = db
          /\ FindById(db, resp'.id) # {} =>
               resp'.status = 200 /\ db' = db \ FindById(db, resp'.id)
     /\ NeverReappears
     /\ (Answers("get") /\ resp'.id \in 1..nextId
           /\ FindById(db', resp'.id) = {}) =>
          resp'.status = 404]_vars

\* C5 as amended: so it is whenever the database call of the request
\* succeeds; when it fails (a malformed identifier, a database error) the
\* answer is 500 and nothing changes.  A GET of an identifier without a
\* record never answers 200.
C5_DeleteRemoves ==
  [][/\ Answers("delete") =>
          /\ (resp'.error = "" /\ FindById(db, resp'.id) = {}) =>
               resp'.status = 404 /\ db' = db
          /\ (resp'.error = "" /\ FindById(db, resp'.id) # {}) =>
               resp'.status = 200 /\ db' = db \ FindById(db, resp'.id)
          /\ resp'.error # "" => resp'.status = 500 /\ db' = db
     /\ NeverReappears
     /\ (Answers("get") /\ FindById(db', resp'.id) = {}) =>
          /\ resp'.status \in {404, 500}
          /\ resp'.error = "" => resp'.status = 404]_vars

C5_Witness ==
  /\ resp.op = "get" /\ resp.status = 404
  /\ resp.id \in 1..MaxStored
  /\ resp.error = ""

\* C3: the update of a PUT without a file leaves the stored imageUrl of its
\* record as it was just before the update.
C3_Original ==
  [][(AnswersUpdate /\ ~resp'.file) =>
       \A old \in FindById(db, resp'.id), new \in FindById(db', resp'.id) :
         new.imageUrl = old.imageUrl]_vars

Populated(d) ==
  /\ RequiredString(d.title)
  /\ RequiredString(d.description)
  /\ RequiredString(d.genre)
  /\ d.imageUrl \in 1..uploads
  /\ d.rating \in Int
  /\ d.releaseDate \in Int

\* C6: every stored movie has its six fields populated and a rating within
\* [0, 10].
C6_Original ==
  \A d \in db :
    Populated(d) /\ d.rating >= RatingMin /\ d.rating <= RatingMax

\* C10: a PUT whose database calls succeed answers 404 when its record does
\* not exist, and answers 200 only with the stored, updated record as body.
C10_Original ==
  [][(Answers("put") /\ resp'.error = "") =>
       /\ FindById(db, resp'.id) = {} => resp'.status = 404
       /\ resp'.status = 200 =>
            resp'.body # {} /\ resp'.body = FindById(db', resp'.id)]_vars

====
